---- MODULE Spec2Model ----
(***************************************************************************)
(* A model of the per-direction Pipe of the SQL proxy (src/src/pipe.rs):   *)
(* frame extraction (get_packet), the run() event loop with its race       *)
(* between the source read and the sibling channel, the shared handler     *)
(* mutex, and the flush loop.  A session is two Pipes, one per Direction,  *)
(* joined by a pair of bounded channels.                                   *)
(***************************************************************************)
EXTENDS Integers, Sequences, FiniteSets, TLC

(***************************************************************************)
(* Bounds of the model.                                                    *)
(***************************************************************************)
\* source reads that deliver bytes, over both Pipes of the session
MaxReads == 2
\* buffer of each channel of the pair, as in mpsc::channel(ChanCap): the
\* messages a channel takes before a send suspends its Sender
ChanCap == 1
\* bytes appended to the accumulation buffer in the framing specification
MaxBytes == 6
\* get_packet extractions performed in the framing specification
MaxFrames == 3

(***************************************************************************)
(* Data model.                                                             *)
(***************************************************************************)
DatabaseType == {"MariaDB", "PostgresSQL"}

Direction == {"Forward", "Backward"}

\* the Pipe at the other end of the channel pair
Sibling(d) == IF d = "Forward" THEN "Backward" ELSE "Forward"

\* Packet::new(db_type, bytes)
Packet(db, bytes) == [db_type |-> db, bytes |-> bytes]

\* the message-type bytes of the PostgreSQL protocol, as character codes:
\* R K B 2 3 C d c f G H W D I E F V p v n N A t S P s 1 Z T Q X
POSTGRES_IDS ==
    { 82, 75, 66, 50, 51, 67, 100, 99, 102, 71, 72, 87, 68, 73, 69, 70,
      86, 112, 118, 110, 78, 65, 116, 83, 80, 115, 49, 90, 84, 81, 88 }

\* the PostgreSQL SSLRequest message: length 8, request code 80877103
SSLRequestBytes == <<0, 0, 0, 8, 4, 210, 22, 47>>

\* packet.get_packet_type() == Ok(PacketType::SSLRequest)
IsSSLRequest(packet) ==
    /\ packet.db_type = "PostgresSQL"
    /\ packet.bytes = SSLRequestBytes

(***************************************************************************)
(* Byte-sequence helpers.                                                  *)
(***************************************************************************)
\* buf.drain(0..n): the removed prefix and what stays in the buffer
Drain(buf, n) ==
    [taken |-> SubSeq(buf, 1, n), rest |-> SubSeq(buf, n + 1, Len(buf))]

\* LittleEndian24 reading the three bytes most significant first
LittleEndian24_swapped(buf) == buf[1] * 65536 + buf[2] * 256 + buf[3]

\* (b[2] << 16) | (b[1] << 8) | b[0], on the first three bytes
LittleEndian24(buf) == buf[3] * 65536 + buf[2] * 256 + buf[1]

\* BigEndian::read_u32(&buf[off..off + 4])
BigEndian32(buf, off) ==
    buf[off + 1] * 16777216 + buf[off + 2] * 65536
        + buf[off + 3] * 256 + buf[off + 4]

RECURSIVE Flatten(_)
\* the concatenation of a sequence of byte sequences
Flatten(ss) == IF ss = <<>> THEN <<>> ELSE Head(ss) \o Flatten(Tail(ss))

IsPrefix(s, t) == Len(s) <= Len(t) /\ SubSeq(t, 1, Len(s)) = s

(***************************************************************************)
(* get_packet: remove one complete frame from the front of packet_buf.     *)
(* The result carries the Option (some), the Packet, and the buffer as the *)
(* call leaves it.                                                         *)
(***************************************************************************)
\* NoPacket of a get_packet that drops the partial frame it has seen
NoPacket_clear(db, buf) ==
    [some |-> FALSE, packet |-> [db_type |-> db, bytes |-> <<>>],
     packet_buf |-> <<>>]

\* return None: the buffer stays as it is
NoPacket(db, buf) ==
    [some |-> FALSE, packet |-> Packet(db, <<>>), packet_buf |-> buf]

\* SomePacket draining the whole buffer (drain(..)) into the packet
SomePacket_drain_all(db, buf, s) ==
    [some |-> TRUE, packet |-> [db_type |-> db, bytes |-> buf],
     packet_buf |-> <<>>]

\* SomePacket whose packet leaves out the first byte it drains
SomePacket_skip_first(db, buf, s) ==
    [some |-> TRUE, packet |-> [db_type |-> db, bytes |-> SubSeq(buf, 2, s)],
     packet_buf |-> SubSeq(buf, s + 1, Len(buf))]

\* return Some(Packet::new(db, packet_buf.drain(0..s).collect()))
SomePacket(db, buf, s) ==
    [some |-> TRUE, packet |-> Packet(db, Drain(buf, s).taken),
     packet_buf |-> Drain(buf, s).rest]

get_packet_mariadb(buf) ==
    IF Len(buf) < 4 THEN NoPacket("MariaDB", buf)
    ELSE LET l == LittleEndian24(buf)
             s == 4 + l
         IN  IF Len(buf) < s THEN NoPacket("MariaDB", buf)
             ELSE SomePacket("MariaDB", buf, s)

get_packet_postgres(buf) ==
    IF buf = <<>> THEN NoPacket("PostgresSQL", buf)
    ELSE LET size0 == IF buf[1] \in POSTGRES_IDS THEN 1 ELSE 0
         IN  IF Len(buf) < size0 + 4 THEN NoPacket("PostgresSQL", buf)
             ELSE LET length == BigEndian32(buf, size0)
                      size == size0 + length
                  IN  IF Len(buf) < size THEN NoPacket("PostgresSQL", buf)
                      ELSE SomePacket("PostgresSQL", buf, size)

get_packet(db, buf) ==
    IF db = "MariaDB" THEN get_packet_mariadb(buf)
    ELSE get_packet_postgres(buf)

(***************************************************************************)
(* The handler (trait PacketHandler) and the pieces of process_read_buf.   *)
(***************************************************************************)
\* what h.handle_request(&packet) may return: the packet or a rewritten one
handle_request(packet) ==
    {Packet(packet.db_type, packet.bytes), Packet(packet.db_type, <<113>>)}

\* what h.handle_response(&packet) may return
handle_response(packet) ==
    {Packet(packet.db_type, packet.bytes), Packet(packet.db_type, <<114>>)}

\* handler_op with the match arms of the two directions alike
handler_op_request(d) == "handle_request"

\* match self.direction { Forward => handle_request, Backward => handle_response }
handler_op(d) == IF d = "Forward" THEN "handle_request" ELSE "handle_response"

HandlerReturns(op, packet) ==
    IF op = "handle_request" THEN handle_request(packet)
    ELSE handle_response(packet)

\* packet_branch without the test for an SSLRequest
packet_branch_no_ssl(packet) == "lock"

\* the branch taken for an extracted packet: the SSL reply or the handler
packet_branch(packet) == IF IsSSLRequest(packet) THEN "send" ELSE "lock"

\* Packet::new(self.db_type, String::from("N").into_bytes())
ssl_response(db) == Packet(db, <<78>>)

\* extend_write_buf putting the new bytes in front of the pending ones
extend_write_buf_front(wb, bytes) == bytes \o wb

\* write_buf.extend_from_slice(&transformed_packet.bytes)
extend_write_buf(wb, bytes) == wb \o bytes

\* self.create_error(string): the message carries "[name:direction]: "
create_error(d, kind) == [kind |-> kind, tagged |-> TRUE, direction |-> d]

\* an error of the source or the sink, passed on as it is
io_error(d, kind) == [kind |-> kind, tagged |-> FALSE, direction |-> d]

Running(d) == [kind |-> "Running", tagged |-> FALSE, direction |-> d]

\* process_short_circuit taking a closed channel for nothing to do
process_short_circuit_ignore_none(d, some, packet, wb) ==
    IF some
    THEN [ok |-> TRUE, write_buf |-> wb \o packet.bytes, err |-> Running(d)]
    ELSE [ok |-> TRUE, write_buf |-> wb, err |-> Running(d)]

\* process_short_circuit dropping the packet it was given
process_short_circuit_drop(d, some, packet, wb) ==
    IF some
    THEN [ok |-> TRUE, write_buf |-> wb, err |-> Running(d)]
    ELSE [ok |-> FALSE, write_buf |-> wb,
          err |-> create_error(d, "SiblingChannelClosed")]

\* process_short_circuit(packet, write_buf): Ok with the extended buffer,
\* or the error of a closed channel (packet = None)
process_short_circuit(d, some, packet, wb) ==
    IF some
    THEN [ok |-> TRUE, write_buf |-> wb \o packet.bytes, err |-> Running(d)]
    ELSE [ok |-> FALSE, write_buf |-> wb,
          err |-> create_error(d, "SiblingChannelClosed")]

\* a sink_write that empties write_buf whatever the sink has accepted
sink_write_clear(wb, n) == [taken |-> SubSeq(wb, 1, n), rest |-> <<>>]

\* let n = sink.write(&write_buf[..]); write_buf.drain(0..n)
sink_write(wb, n) == Drain(wb, n)

(***************************************************************************)
(* State.                                                                  *)
(***************************************************************************)
VARIABLES
    db_type,     \* the session's DatabaseType
    pc,          \* where each Pipe's run() is
    packet_buf,  \* each Pipe's accumulation buffer
    write_buf,   \* each Pipe's output buffer
    packet,      \* the packet each Pipe is processing
    chan,        \* chan[d]: the Packets queued for Pipe d's receiver
    lock,        \* the holder of the packet_handler Mutex
    result,      \* what run() returned, or Running
    reads,       \* completed source reads of each Pipe
    sink,        \* the bytes each Pipe's sink has accepted
    srcBytes,    \* the bytes each Pipe has appended to packet_buf
    frames,      \* the frames each Pipe has extracted
    calls,       \* the handler invocations each Pipe has made, in order
    sent,        \* the Packets each Pipe has put on its sibling-send channel
    events,      \* what each Pipe was given to output, in order: the bytes
                 \* a handler call returned or a channel receipt delivered
    last_call,   \* each Pipe's latest get_packet call: buffer and result
    zero_write,  \* the latest sink.write of the Pipe's flush loop returned 0
    parked       \* the Sender of the Pipe is parked: its latest send found
                 \* the channel's buffer full and no receive has followed

vars == <<db_type, pc, packet_buf, write_buf, packet, chan, lock, result,
          reads, sink, srcBytes, frames, calls, sent, events, last_call,
          zero_write, parked>>

NoOne == "NoOne"

\* Pipe::new and the locals of run()
Init ==
    /\ db_type \in DatabaseType
    /\ pc = [d \in Direction |-> "select"]
    /\ packet_buf = [d \in Direction |-> <<>>]
    /\ write_buf = [d \in Direction |-> <<>>]
    /\ packet = [d \in Direction |-> Packet(db_type, <<>>)]
    /\ chan = [d \in Direction |-> <<>>]
    /\ lock = NoOne
    /\ result = [d \in Direction |-> Running(d)]
    /\ reads = [d \in Direction |-> 0]
    /\ sink = [d \in Direction |-> <<>>]
    /\ srcBytes = [d \in Direction |-> <<>>]
    /\ frames = [d \in Direction |-> <<>>]
    /\ calls = [d \in Direction |-> <<>>]
    /\ sent = [d \in Direction |-> <<>>]
    /\ events = [d \in Direction |-> <<>>]
    /\ last_call = [d \in Direction |->
                      [called |-> FALSE, db |-> db_type, arg |-> <<>>,
                       res |-> NoPacket(db_type, <<>>)]]
    /\ zero_write = [d \in Direction |-> FALSE]
    /\ parked = [d \in Direction |-> FALSE]

\* run() of Pipe d has returned: its Sender and its Receiver are dropped
Ended(d) == pc[d] = "done"

\* the receiver of Pipe d yields None: no message left and no sender
ChannelClosed(d) == chan[d] = <<>> /\ Ended(Sibling(d))

\* the chunks a source read may deliver in the session specification: for
\* PostgreSQL an SSLRequest, its two halves, two SSLRequests in one chunk, a
\* 'Q' frame, and a 'Q' frame followed by a frame without discriminator; for
\* MariaDB a frame, its two parts, and two frames in one chunk
Chunks(db) ==
    IF db = "PostgresSQL"
    THEN { SSLRequestBytes,
           SSLRequestBytes \o SSLRequestBytes,
           SubSeq(SSLRequestBytes, 1, 4),
           SubSeq(SSLRequestBytes, 5, 8),
           <<81, 0, 0, 0, 4>>,
           <<81, 0, 0, 0, 4, 0, 0, 0, 5, 7>> }
    ELSE { <<1, 0, 0, 0, 3>>,
           <<1, 0>>,
           <<0, 0, 3>>,
           <<0, 0, 0, 1, 1, 0, 0, 2, 9>> }

(***************************************************************************)
(* run(): the race of the select!, process_read_buf, process_short_circuit *)
(* and the flush loop.  pc[d] is one of                                    *)
(*   select   waiting in the select! for the source or the channel         *)
(*   extract  at the head of the while-let loop over get_packet            *)
(*   send     at the call of other_pipe_sender.send(..)                    *)
(*   parked   suspended in that send, the reply queued already             *)
(*   lock     suspended in packet_handler.lock()                           *)
(*   handler  inside handle_request / handle_response, holding the lock    *)
(*   flush    in the loop writing write_buf to the sink                    *)
(*   done     run() has returned its error                                 *)
(***************************************************************************)
\* an error that is noted but not returned: the loop of run() goes on
Fail_keep_running(d, e) ==
    /\ pc' = pc
    /\ result' = [result EXCEPT ![d] = e]
    /\ chan' = chan

\* run() returns Err(e): its Receiver is dropped with the Packets that are
\* still queued for the Pipe
Fail(d, e) ==
    /\ pc' = [pc EXCEPT ![d] = "done"]
    /\ result' = [result EXCEPT ![d] = e]
    /\ chan' = [chan EXCEPT ![d] = <<>>]

\* the read branch wins with Ok(n), n > 0: the chunk is appended to packet_buf
Read(d, chunk) ==
    /\ pc[d] = "select"
    /\ reads["Forward"] + reads["Backward"] < MaxReads
    /\ packet_buf' = [packet_buf EXCEPT ![d] = @ \o chunk]
    /\ srcBytes' = [srcBytes EXCEPT ![d] = @ \o chunk]
    /\ reads' = [reads EXCEPT ![d] = @ + 1]
    /\ pc' = [pc EXCEPT ![d] = "extract"]
    /\ UNCHANGED <<db_type, write_buf, packet, chan, lock, result, sink,
                   frames, calls, sent, events, last_call, zero_write, parked>>

\* the read branch wins with Ok(0): the peer closed the source
ReadZero(d) ==
    /\ pc[d] = "select"
    /\ reads' = [reads EXCEPT ![d] = @ + 1]
    /\ Fail(d, create_error(d, "SourceClosed"))
    /\ UNCHANGED <<db_type, packet_buf, write_buf, packet, lock, sink,
                   srcBytes, frames, calls, sent, events, last_call,
                   zero_write, parked>>

\* the read branch wins with Err(e): the error is returned as it is
ReadError(d) ==
    /\ pc[d] = "select"
    /\ reads' = [reads EXCEPT ![d] = @ + 1]
    /\ Fail(d, io_error(d, "SourceIOError"))
    /\ UNCHANGED <<db_type, packet_buf, write_buf, packet, lock, sink,
                   srcBytes, frames, calls, sent, events, last_call,
                   zero_write, parked>>

\* an `if let` in place of the `while let`: one packet per chunk
after_packet_no_loop == "flush"

\* the end of the body of the while-let loop: get_packet is called again
after_packet == "extract"

\* one turn of `while let Some(packet) = get_packet(..)`
GetPacket(d) ==
    /\ pc[d] = "extract"
    /\ LET r == get_packet(db_type, packet_buf[d])
       IN  /\ last_call' = [last_call EXCEPT
                              ![d] = [called |-> TRUE, db |-> db_type,
                                      arg |-> packet_buf[d], res |-> r]]
           /\ packet_buf' = [packet_buf EXCEPT ![d] = r.packet_buf]
           /\ IF r.some
              THEN /\ frames' = [frames EXCEPT ![d] = Append(@, r.packet.bytes)]
                   /\ packet' = [packet EXCEPT ![d] = r.packet]
                   /\ pc' = [pc EXCEPT ![d] = packet_branch(r.packet)]
              ELSE /\ pc' = [pc EXCEPT ![d] = "flush"]
                   /\ UNCHANGED <<frames, packet>>
    /\ UNCHANGED <<db_type, write_buf, chan, lock, result, reads, sink,
                   srcBytes, calls, sent, events, zero_write, parked>>

\* the Sender parks itself when its message finds the buffer of the channel
\* full: the message is queued all the same, in the Sender's own slot
park_self(queued) == queued >= ChanCap

\* other_pipe_sender.send(..): the channel is open and the Sender not parked,
\* so the reply is queued at once; the send then returns, or suspends with
\* the Sender parked until the sibling has received a message
Send(d) ==
    /\ pc[d] = "send"
    /\ ~Ended(Sibling(d))
    /\ chan' = [chan EXCEPT ![Sibling(d)] = Append(@, ssl_response(db_type))]
    /\ sent' = [sent EXCEPT ![d] = Append(@, ssl_response(db_type))]
    /\ parked' = [parked EXCEPT ![d] = park_self(Len(chan[Sibling(d)]))]
    /\ pc' = [pc EXCEPT ![d] = IF park_self(Len(chan[Sibling(d)]))
                               THEN "parked" ELSE after_packet]
    /\ UNCHANGED <<db_type, packet_buf, write_buf, packet, lock, result,
                   reads, sink, srcBytes, frames, calls, events, last_call,
                   zero_write>>

\* the suspended send returns Ok: the sibling has received a message, which
\* has unparked the Sender, or the sibling's Receiver has been dropped
SendResume(d) ==
    /\ pc[d] = "parked"
    /\ ~parked[d] \/ Ended(Sibling(d))
    /\ parked' = [parked EXCEPT ![d] = FALSE]
    /\ pc' = [pc EXCEPT ![d] = after_packet]
    /\ UNCHANGED <<db_type, packet_buf, write_buf, packet, chan, lock, result,
                   reads, sink, srcBytes, frames, calls, sent, events,
                   last_call, zero_write>>

\* a send that starts after the sibling's Receiver is gone fails
SendFail(d) ==
    /\ pc[d] = "send"
    /\ Ended(Sibling(d))
    /\ Fail(d, create_error(d, "SendFailed"))
    /\ UNCHANGED <<db_type, packet_buf, write_buf, packet, lock, reads,
                   sink, srcBytes, frames, calls, sent, events, last_call,
                   zero_write, parked>>

\* lock_available of a handler that is shared without the Mutex
lock_available_unguarded(holder) == TRUE

\* self.packet_handler.lock().await resolves only when the Mutex is free
lock_available(holder) == holder = NoOne

\* the lock is taken and the handler operation of the direction is entered
Lock(d) ==
    /\ pc[d] = "lock"
    /\ lock_available(lock)
    /\ lock' = d
    /\ calls' = [calls EXCEPT
                   ![d] = Append(@, [op |-> handler_op(d),
                                     bytes |-> packet[d].bytes])]
    /\ pc' = [pc EXCEPT ![d] = "handler"]
    /\ UNCHANGED <<db_type, packet_buf, write_buf, packet, chan, result,
                   reads, sink, srcBytes, frames, sent, events, last_call,
                   zero_write, parked>>

\* the handler returns: the guard is dropped, the bytes join write_buf
HandlerReturn(d, transformed_packet) ==
    /\ pc[d] = "handler"
    /\ lock' = NoOne
    /\ write_buf' = [write_buf EXCEPT
                       ![d] = extend_write_buf(@, transformed_packet.bytes)]
    /\ events' = [events EXCEPT
                    ![d] = Append(@, [from |-> "handler",
                                      bytes |-> transformed_packet.bytes])]
    /\ pc' = [pc EXCEPT ![d] = after_packet]
    /\ UNCHANGED <<db_type, packet_buf, packet, chan, result, reads, sink,
                   srcBytes, frames, calls, sent, last_call, zero_write,
                   parked>>

\* the channel branch wins with Some(packet); taking the message unparks
\* the sibling's Sender
Recv(d) ==
    /\ pc[d] = "select"
    /\ chan[d] # <<>>
    /\ LET r == process_short_circuit(d, TRUE, Head(chan[d]), write_buf[d])
       IN  /\ write_buf' = [write_buf EXCEPT ![d] = r.write_buf]
           /\ IF r.ok
              THEN /\ pc' = [pc EXCEPT ![d] = "flush"]
                   /\ chan' = [chan EXCEPT ![d] = Tail(@)]
                   /\ UNCHANGED result
              ELSE Fail(d, r.err)
    /\ events' = [events EXCEPT
                    ![d] = Append(@, [from |-> "channel",
                                      bytes |-> Head(chan[d]).bytes])]
    /\ parked' = [parked EXCEPT ![Sibling(d)] = FALSE]
    /\ UNCHANGED <<db_type, packet_buf, packet, lock, reads, sink, srcBytes,
                   frames, calls, sent, last_call, zero_write>>

\* the channel branch wins with None: the sibling has ended
RecvClosed(d) ==
    /\ pc[d] = "select"
    /\ ChannelClosed(d)
    /\ LET r == process_short_circuit(d, FALSE, Packet(db_type, <<>>),
                                      write_buf[d])
       IN  /\ write_buf' = [write_buf EXCEPT ![d] = r.write_buf]
           /\ IF r.ok
              THEN /\ pc' = [pc EXCEPT ![d] = "flush"]
                   /\ UNCHANGED <<result, chan>>
              ELSE Fail(d, r.err)
    /\ UNCHANGED <<db_type, packet_buf, packet, lock, reads, sink,
                   srcBytes, frames, calls, sent, events, last_call,
                   zero_write, parked>>

\* one sink.write of the flush loop: the sink accepts n bytes
SinkWrite(d, n) ==
    /\ pc[d] = "flush"
    /\ write_buf[d] # <<>>
    /\ n \in 0..Len(write_buf[d])
    /\ sink' = [sink EXCEPT ![d] = @ \o sink_write(write_buf[d], n).taken]
    /\ write_buf' = [write_buf EXCEPT ![d] = sink_write(@, n).rest]
    /\ zero_write' = [zero_write EXCEPT ![d] = (n = 0)]
    /\ UNCHANGED <<db_type, pc, packet_buf, packet, chan, lock, result, reads,
                   srcBytes, frames, calls, sent, events, last_call, parked>>

\* sink.write fails: the error is returned as it is
SinkError(d) ==
    /\ pc[d] = "flush"
    /\ write_buf[d] # <<>>
    /\ Fail(d, io_error(d, "SinkIOError"))
    /\ zero_write' = [zero_write EXCEPT ![d] = FALSE]
    /\ UNCHANGED <<db_type, packet_buf, write_buf, packet, lock, reads,
                   sink, srcBytes, frames, calls, sent, events, last_call,
                   parked>>

\* a flush that writes once and goes on whatever is left in write_buf
flush_finished_after_one_write(wb) == TRUE

\* `while !write_buf.is_empty()`: the flush loop ends on an empty write_buf
flush_finished(wb) == wb = <<>>

\* write_buf is empty: the flush loop ends and the next race starts
FlushDone(d) ==
    /\ pc[d] = "flush"
    /\ flush_finished(write_buf[d])
    /\ pc' = [pc EXCEPT ![d] = "select"]
    /\ UNCHANGED <<db_type, packet_buf, write_buf, packet, chan, lock, result,
                   reads, sink, srcBytes, frames, calls, sent, events,
                   last_call, zero_write, parked>>

Next ==
    \/ \E d \in Direction : \E chunk \in Chunks(db_type) : Read(d, chunk)
    \/ \E d \in Direction : ReadZero(d)
    \/ \E d \in Direction : ReadError(d)
    \/ \E d \in Direction : GetPacket(d)
    \/ \E d \in Direction : Send(d)
    \/ \E d \in Direction : SendResume(d)
    \/ \E d \in Direction : SendFail(d)
    \/ \E d \in Direction : Lock(d)
    \/ \E d \in Direction :
         \E t \in HandlerReturns(handler_op(d), packet[d]) : HandlerReturn(d, t)
    \/ \E d \in Direction : Recv(d)
    \/ \E d \in Direction : RecvClosed(d)
    \/ \E d \in Direction : \E n \in 0..Len(write_buf[d]) : SinkWrite(d, n)
    \/ \E d \in Direction : SinkError(d)
    \/ \E d \in Direction : FlushDone(d)

Spec == Init /\ [][Next]_vars

(***************************************************************************)
(* The framing specification: one accumulation buffer (the Forward Pipe's) *)
(* is fed arbitrary bytes in arbitrary chunks, and after each chunk        *)
(* get_packet is called until it returns None, as the while-let loop of    *)
(* process_read_buf does.  The packets are only recorded.                  *)
(***************************************************************************)
\* the byte values the chunks are made of: lengths 0, 2 and 4, and 'Q'
FrameBytes == {0, 2, 4, 81}

\* the byte sequences of 1..n bytes
ByteSeqs(n) == UNION {[1..k -> FrameBytes] : k \in 1..n}

\* the inputs of the framing examples: a MariaDB frame with L = 2, the
\* PostgreSQL SSLRequest, a 'Q' frame with LEN = 9, and for each protocol
\* two frames in a row followed by the start of a third
ExampleInputs ==
    { <<2, 0, 0, 0, 171, 205>>,
      SSLRequestBytes,
      <<81, 0, 0, 0, 9, 83, 69, 76, 69, 0>>,
      <<1, 0, 0, 0, 7, 2, 0, 0, 1, 8, 9, 3, 0>>,
      <<81, 0, 0, 0, 5, 7, 0, 0, 0, 6, 8, 9, 81, 0>> }

\* packet_buf.extend_from_slice(&read_buf[0..n])
FrameAppend(chunk) ==
    /\ pc["Forward"] = "select"
    /\ packet_buf' = [packet_buf EXCEPT !["Forward"] = @ \o chunk]
    /\ srcBytes' = [srcBytes EXCEPT !["Forward"] = @ \o chunk]
    /\ reads' = [reads EXCEPT !["Forward"] = @ + 1]
    /\ pc' = [pc EXCEPT !["Forward"] = "extract"]
    /\ UNCHANGED <<db_type, write_buf, packet, chan, lock, result, sink,
                   frames, calls, sent, events, last_call, zero_write, parked>>

\* a chunk of arbitrary bytes
FrameAppendBytes(chunk) ==
    /\ Len(srcBytes["Forward"]) + Len(chunk) <= MaxBytes
    /\ FrameAppend(chunk)

\* the next n bytes of an example input
FrameAppendExample(e, n) ==
    /\ IsPrefix(srcBytes["Forward"], e)
    /\ n \in 1..(Len(e) - Len(srcBytes["Forward"]))
    /\ FrameAppend(SubSeq(e, Len(srcBytes["Forward"]) + 1,
                          Len(srcBytes["Forward"]) + n))

\* one call of get_packet in the while-let loop
FrameGetPacket ==
    /\ pc["Forward"] = "extract"
    /\ Len(frames["Forward"]) < MaxFrames
    /\ LET r == get_packet(db_type, packet_buf["Forward"])
       IN  /\ last_call' = [last_call EXCEPT
                              !["Forward"] =
                                  [called |-> TRUE, db |-> db_type,
                                   arg |-> packet_buf["Forward"], res |-> r]]
           /\ packet_buf' = [packet_buf EXCEPT !["Forward"] = r.packet_buf]
           /\ IF r.some
              THEN /\ frames' = [frames EXCEPT
                                   !["Forward"] = Append(@, r.packet.bytes)]
                   /\ UNCHANGED pc
              ELSE /\ pc' = [pc EXCEPT !["Forward"] = "select"]
                   /\ UNCHANGED frames
    /\ UNCHANGED <<db_type, write_buf, packet, chan, lock, result, reads,
                   sink, srcBytes, calls, sent, events, zero_write, parked>>

FrameNext ==
    \/ \E chunk \in ByteSeqs(MaxBytes - Len(srcBytes["Forward"])) :
         FrameAppendBytes(chunk)
    \/ \E e \in ExampleInputs : \E n \in 1..Len(e) : FrameAppendExample(e, n)
    \/ FrameGetPacket

FrameSpec == Init /\ [][FrameNext]_vars

(***************************************************************************)
(* Properties of the session.                                              *)
(***************************************************************************)
\* the extracted frames of Pipe d that are SSL-negotiation probes
SSLFrames(d) ==
    SelectSeq(frames[d], LAMBDA f : IsSSLRequest(Packet(db_type, f)))

\* the extracted frames of Pipe d that are not
OtherFrames(d) ==
    SelectSeq(frames[d], LAMBDA f : ~IsSSLRequest(Packet(db_type, f)))

\* the bytes of the output events of Pipe d, in order
EventBytes(d) == [i \in 1..Len(events[d]) |-> events[d][i].bytes]

\* the output events of Pipe d that a handler call produced
HandlerEvents(d) == SelectSeq(events[d], LAMBDA e : e.from = "handler")

\* C1: every SSL-negotiation probe a Pipe extracts (the Forward Pipe in
\* particular) puts exactly one Packet on the sibling-send channel, with
\* bytes ['N'] and the session's db_type (the probe whose send has not yet
\* begun, or has failed on an ended sibling, has none); no handler
\* call is made for a probe, and the Pipe's own output (sink and output
\* buffer) holds no bytes for it: every byte there comes from a handler
\* return or from the channel.
SSLShortCircuit ==
    \A d \in Direction :
        LET unanswered == IF pc[d] = "send" \/ result[d].kind = "SendFailed"
                          THEN 1 ELSE 0
            returned == Len(calls[d]) - (IF pc[d] = "handler" THEN 1 ELSE 0)
        IN  /\ sent[d] = [i \in 1..(Len(SSLFrames(d)) - unanswered) |->
                             [db_type |-> db_type, bytes |-> <<78>>]]
            /\ \A i \in 1..Len(calls[d]) :
                   calls[d][i].bytes # SSLRequestBytes
            /\ Len(HandlerEvents(d)) = returned
            /\ Len(frames[d]) = Len(SSLFrames(d)) + Len(calls[d])
                                   + (IF pc[d] = "lock" THEN 1 ELSE 0)
            /\ sink[d] \o write_buf[d] = Flatten(EventBytes(d))

\* the Forward Pipe has extracted an SSL probe and sent its reply
SSLShortCircuitWitness ==
    /\ frames["Forward"] = <<SSLRequestBytes>>
    /\ chan["Backward"] = <<[db_type |-> "PostgresSQL", bytes |-> <<78>>]>>
    /\ pc["Forward"] = "select"
    /\ sink["Forward"] = <<>>
    /\ calls["Forward"] = <<>>

\* C2: at most one of the two Pipes is inside a handler invocation, and the
\* one inside holds the handler's lock.
MutualExclusion ==
    /\ Cardinality({d \in Direction : pc[d] = "handler"}) <= 1
    /\ \A d \in Direction : pc[d] = "handler" => lock = d

\* one Pipe is inside the handler while the other waits for the lock
MutualExclusionWitness ==
    /\ pc["Backward"] = "handler"
    /\ pc["Forward"] = "lock"

\* C3: the handler calls of each Pipe are its extracted non-SSL frames, one
\* call per frame and in their order (but the frame still waiting for the
\* lock), each by the operation of the Pipe's direction; so the calls of
\* the session count the non-SSL frames of both directions.
HandlerCallsMatchFrames ==
    \A d \in Direction :
        LET waiting == IF pc[d] = "lock" THEN 1 ELSE 0
        IN  calls[d] = [i \in 1..(Len(OtherFrames(d)) - waiting) |->
                          [op |-> IF d = "Forward" THEN "handle_request"
                                  ELSE "handle_response",
                           bytes |-> OtherFrames(d)[i]]]

\* a Pipe has called the handler for its frame and has received the
\* short-circuit packet that answers the SSL probe its sibling extracted
HandlerCallsMatchFramesWitness ==
    \E d \in Direction :
        /\ Len(calls[d]) >= 1
        /\ pc[d] = "select"
        /\ \E i \in 1..Len(events[d]) : events[d][i].from = "channel"
        /\ Len(SSLFrames(Sibling(d))) >= 1
        /\ calls[Sibling(d)] = <<>>

\* C4, as stated: once the sibling-receive channel of a running Pipe is
\* closed, the Pipe completes no further read from its source.
NoReadOnceChannelClosed ==
    [][\A d \in Direction :
          (ChannelClosed(d) /\ ~Ended(d)) => reads'[d] = reads[d]]_vars

\* C4, amended: when the race of a Pipe resolves on the receive branch of
\* a closed sibling channel, run() fails there and then with
\* SiblingChannelClosed, without a source read in that iteration, and a
\* Pipe whose run() has ended reads nothing more; a read that wins the race
\* against the closed channel is the only other step the Pipe can take.
TerminationPropagation ==
    [][\A d \in Direction :
          /\ (pc[d] = "select" /\ ChannelClosed(d) /\ pc'[d] # "select"
                /\ reads'[d] = reads[d])
             => (Ended(d)' /\ result'[d].kind = "SiblingChannelClosed")
          /\ (result'[d].kind = "SiblingChannelClosed"
                /\ result[d].kind = "Running")
             => (ChannelClosed(d) /\ pc[d] = "select"
                   /\ reads'[d] = reads[d] /\ srcBytes'[d] = srcBytes[d])
          /\ Ended(d)
             => (Ended(d)' /\ reads'[d] = reads[d]
                   /\ result'[d] = result[d])]_vars

\* the Backward Pipe has failed on the channel its ended sibling closed
TerminationPropagationWitness ==
    /\ Ended("Forward")
    /\ Ended("Backward")
    /\ result["Backward"].kind = "SiblingChannelClosed"
    /\ result["Forward"].kind = "SourceClosed"

\* C5: in each direction the bytes the sink has received, followed by the
\* bytes still in the output buffer, are the concatenation, in the order of
\* processing, of the bytes the handler returned for each processed frame
\* and of the bytes of each short-circuit Packet received; the handler
\* returns are those of the Pipe's handler calls, in the order of the calls.
OrderingGuarantee ==
    \A d \in Direction :
        /\ sink[d] \o write_buf[d] = Flatten(EventBytes(d))
        /\ IsPrefix(sink[d], Flatten(EventBytes(d)))
        /\ LET he == HandlerEvents(d)
           IN  /\ Len(he) = Len(calls[d]) - (IF pc[d] = "handler" THEN 1 ELSE 0)
               /\ \A i \in 1..Len(he) :
                      [db_type |-> db_type, bytes |-> he[i].bytes]
                          \in HandlerReturns(calls[d][i].op,
                                             [db_type |-> db_type,
                                              bytes |-> calls[d][i].bytes])

\* a sink has received the bytes of a short-circuit Packet and then those
\* of two frames of one chunk, the second one rewritten by the handler
OrderingGuaranteeWitness ==
    \E d \in Direction :
        /\ Len(events[d]) = 3
        /\ events[d][1].from = "channel"
        /\ events[d][2].from = "handler"
        /\ events[d][3].from = "handler"
        /\ events[d][2].bytes # events[d][3].bytes
        /\ events[d][3].bytes # calls[d][2].bytes
        /\ write_buf[d] = <<>>
        /\ sink[d] = <<78>> \o events[d][2].bytes \o events[d][3].bytes

(***************************************************************************)
(* Properties of the framing.                                              *)
(***************************************************************************)
RECURSIVE ExtractAll(_, _, _)
\* the frames the while-let loop extracts from buf delivered in one piece,
\* at most n of them
ExtractAll(db, buf, n) ==
    IF n = 0 THEN <<>>
    ELSE LET r == get_packet(db, buf)
         IN  IF r.some
             THEN <<r.packet.bytes>> \o ExtractAll(db, r.packet_buf, n - 1)
             ELSE <<>>

\* C6: however the bytes were split into chunks, the frames extracted so
\* far are the first frames of the one-shot extraction from all the bytes
\* appended, and once get_packet has returned None they are all of them;
\* for both protocols.
ChunkInvariance ==
    LET oneShot == ExtractAll(db_type, srcBytes["Forward"], MaxFrames)
    IN  /\ IsPrefix(frames["Forward"], oneShot)
        /\ pc["Forward"] = "select" => frames["Forward"] = oneShot

\* two frames were extracted from bytes that came in three chunks or more,
\* and the bytes left over are a partial frame
ChunkInvarianceWitness ==
    /\ reads["Forward"] >= 3
    /\ pc["Forward"] = "select"
    /\ Len(frames["Forward"]) = 2
    /\ Len(frames["Forward"][1]) >= 4
    /\ Len(frames["Forward"][2]) >= 4
    /\ packet_buf["Forward"] # <<>>

\* C7: the frames extracted so far, concatenated in the order of their
\* extraction and followed by the content of the accumulation buffer, are
\* all the bytes ever appended; for both protocols.
NoLossNoDuplication ==
    Flatten(frames["Forward"]) \o packet_buf["Forward"] = srcBytes["Forward"]

\* frames were extracted, bytes are left over, and more than one chunk came
NoLossNoDuplicationWitness ==
    /\ reads["Forward"] >= 2
    /\ Len(frames["Forward"]) >= 2
    /\ frames["Forward"][1] # <<>>
    /\ frames["Forward"][1] # frames["Forward"][2]
    /\ packet_buf["Forward"] # <<>>
    /\ pc["Forward"] = "select"

\* C8: a get_packet call on a buffer that is too short for the header, or
\* shorter than the total frame size its header declares, returns None and
\* leaves the buffer as it was; on any other buffer it returns a frame of
\* the declared size, which followed by the buffer as the call leaves it is
\* the buffer as it was.
FrameEffect ==
    LET c == last_call["Forward"]
        buf == c.arg
        p == IF c.db = "PostgresSQL" /\ buf # <<>> /\ buf[1] \in POSTGRES_IDS
             THEN 1 ELSE 0
        header == IF c.db = "MariaDB" THEN 4 ELSE p + 4
        declared == IF c.db = "MariaDB"
                    THEN 4 + buf[1] + 256 * buf[2] + 65536 * buf[3]
                    ELSE p + 16777216 * buf[p + 1] + 65536 * buf[p + 2]
                           + 256 * buf[p + 3] + buf[p + 4]
    IN  c.called =>
          IF Len(buf) < header \/ Len(buf) < declared
          THEN ~c.res.some /\ c.res.packet_buf = buf
          ELSE /\ c.res.some
               /\ Len(c.res.packet.bytes) = declared
               /\ c.res.packet.bytes \o c.res.packet_buf = buf

\* of the 'Q' frame with LEN = 9 only nine bytes are there: get_packet has
\* returned None and the nine bytes are still in the buffer
FrameEffectWitness ==
    /\ last_call["Forward"].called
    /\ last_call["Forward"].db = "PostgresSQL"
    /\ last_call["Forward"].arg = <<81, 0, 0, 0, 9, 83, 69, 76, 69>>
    /\ ~last_call["Forward"].res.some
    /\ packet_buf["Forward"] = <<81, 0, 0, 0, 9, 83, 69, 76, 69>>
    /\ frames["Forward"] = <<>>

\* C9: for MariaDB and a buffer of at least 4 bytes, with L the 24-bit
\* little-endian value of its first three bytes, get_packet returns a frame
\* exactly when the buffer holds at least 4 + L bytes, and the frame is the
\* first 4 + L bytes of the buffer, header and sequence byte included.
MariaDBFraming ==
    LET c == last_call["Forward"]
        buf == c.arg
        L == buf[1] + 256 * buf[2] + 65536 * buf[3]
    IN  (c.called /\ c.db = "MariaDB" /\ Len(buf) >= 4) =>
          /\ c.res.some <=> Len(buf) >= 4 + L
          /\ c.res.some =>
               /\ c.res.packet = [db_type |-> "MariaDB",
                                  bytes |-> [i \in 1..(4 + L) |-> buf[i]]]
               /\ c.res.packet_buf =
                      [i \in 1..(Len(buf) - 4 - L) |-> buf[4 + L + i]]

\* [0x02,0x00,0x00,0x00,0xAB,0xCD] has given one frame of 6 bytes and an
\* empty buffer
MariaDBFramingWitness ==
    /\ last_call["Forward"].called
    /\ last_call["Forward"].db = "MariaDB"
    /\ last_call["Forward"].arg = <<2, 0, 0, 0, 171, 205>>
    /\ frames["Forward"] = <<<<2, 0, 0, 0, 171, 205>>>>
    /\ packet_buf["Forward"] = <<>>

\* C10: for PostgreSQL, with P = 1 if the first byte of the buffer is a
\* recognized discriminator and 0 otherwise, and LEN the 32-bit big-endian
\* value at offset P, get_packet returns a frame exactly when the buffer
\* holds at least P + 4 and at least P + LEN bytes; the frame is the first
\* P + LEN bytes, and it is a complete wire frame: it holds its own length
\* header, the P + 4 bytes that come first.
PostgresFraming ==
    LET c == last_call["Forward"]
        buf == c.arg
        P == IF buf # <<>> /\ buf[1] \in POSTGRES_IDS THEN 1 ELSE 0
        LEN == 16777216 * buf[P + 1] + 65536 * buf[P + 2]
                 + 256 * buf[P + 3] + buf[P + 4]
    IN  (c.called /\ c.db = "PostgresSQL") =>
          /\ c.res.some <=> (Len(buf) >= P + 4 /\ Len(buf) >= P + LEN)
          /\ c.res.some =>
               /\ c.res.packet = [db_type |-> "PostgresSQL",
                                  bytes |-> [i \in 1..(P + LEN) |-> buf[i]]]
               /\ Len(c.res.packet.bytes) >= P + 4
               /\ SubSeq(c.res.packet.bytes, 1, P + 4) = SubSeq(buf, 1, P + 4)

(***************************************************************************)
(* Failures, the buffers between two races, the flush and the channel.     *)
(***************************************************************************)
\* the failures of run() that come from the source or the sibling channel
InputFailures == {"SourceClosed", "SourceIOError", "SiblingChannelClosed"}

\* C11: whichever failure ends run() - a zero-byte read, an I/O error of the
\* source or a closed sibling channel - the error run() returns carries the
\* message prefix made of the Pipe's name and direction.
AllFailuresTagged ==
    \A d \in Direction :
        (Ended(d) /\ result[d].kind \in InputFailures) =>
            (result[d].tagged /\ result[d].direction = d)

\* C12: at every point where run() starts a new race between the source read
\* and the sibling-receive channel, the output buffer is empty: what an event
\* produced has been drained to the sink before the next event is taken.
OutputBufferInvariant ==
    \A d \in Direction : pc[d] = "select" => write_buf[d] = <<>>

\* a Pipe is back at the race after its sink has taken all the bytes of two
\* events
OutputBufferInvariantWitness ==
    \E d \in Direction :
        /\ pc[d] = "select"
        /\ Len(events[d]) >= 2
        /\ sink[d] = Flatten(EventBytes(d))
        /\ Len(sink[d]) >= 2
        /\ write_buf[d] = <<>>

\* C13: whenever run() waits for the next event after a chunk of the source
\* has been processed, get_packet applied to the accumulation buffer returns
\* None: the frames have been extracted until none was left.
AccumulationBufferInvariant ==
    \A d \in Direction :
        (pc[d] \in {"select", "flush"} /\ ~Ended(d)) =>
            ~get_packet(db_type, packet_buf[d]).some

\* a Pipe waits for the next event having extracted two frames of one chunk
\* or a frame with the start of the next one left in the buffer
AccumulationBufferInvariantWitness ==
    \E d \in Direction :
        /\ pc[d] = "select"
        /\ \/ Len(frames[d]) >= 2 /\ reads[d] = 1
           \/ Len(frames[d]) >= 1 /\ packet_buf[d] # <<>>

\* C14: in the flush each write that the sink accepts bytes of removes from
\* the output buffer exactly the prefix the sink has received and leaves the
\* rest for the next write; a partial write is not an error: the Pipe stays
\* in the flush with no failure. The flush is left for the next race only
\* with the output buffer empty, so the sink has then received the bytes the
\* buffer held when the flush started, each once and in order.
FlushEffect ==
    [][\A d \in Direction :
         pc[d] = "flush" =>
           /\ (sink'[d] # sink[d] \/ write_buf'[d] # write_buf[d]) =>
                 \E n \in 1..Len(write_buf[d]) :
                     /\ sink'[d] = sink[d] \o SubSeq(write_buf[d], 1, n)
                     /\ write_buf'[d] =
                          SubSeq(write_buf[d], n + 1, Len(write_buf[d]))
                     /\ pc'[d] = "flush"
                     /\ result'[d] = result[d]
           /\ pc'[d] = "select" =>
                 /\ write_buf[d] = <<>>
                 /\ sink'[d] = sink[d]]_vars

\* a partial write has happened: the sink holds the first bytes of the one
\* event of the Pipe and the output buffer the rest
FlushEffectWitness ==
    \E d \in Direction :
        /\ pc[d] = "flush"
        /\ Len(events[d]) = 1
        /\ sink[d] # <<>>
        /\ write_buf[d] # <<>>
        /\ sink[d] \o write_buf[d] = events[d][1].bytes

\* what a Pipe does for its events: the frames it extracts, the handler calls
\* it makes, the Packets it sends, the bytes its sink and its buffers hold
Activity(d) ==
    <<frames[d], calls[d], sent[d], sink[d], packet_buf[d], write_buf[d]>>

\* C15: a source read of zero bytes makes run() fail with SourceClosed at
\* once, out of the race, with nothing else done in that step; there is no
\* retry: once run() has failed so, the Pipe makes no further read, handler
\* call, send or sink write, and the bytes left in its accumulation buffer
\* are never extracted.
ZeroReadEndsRun ==
    [][\A d \in Direction :
         /\ (result[d].kind = "Running" /\ result'[d].kind = "SourceClosed") =>
               /\ pc[d] = "select"
               /\ pc'[d] = "done"
               /\ Activity(d)' = Activity(d)
         /\ result[d].kind = "SourceClosed" =>
               /\ pc'[d] = "done"
               /\ result'[d] = result[d]
               /\ reads'[d] = reads[d]
               /\ Activity(d)' = Activity(d)]_vars

\* run() has failed with SourceClosed on a partial frame in its accumulation
\* buffer, while the sibling has read a chunk and made a handler call
ZeroReadEndsRunWitness ==
    \E d \in Direction :
        /\ Ended(d)
        /\ result[d].kind = "SourceClosed"
        /\ packet_buf[d] # <<>>
        /\ calls[Sibling(d)] # <<>>
        /\ reads[Sibling(d)] = 1

\* C16: when a Pipe receives a packet on its sibling-receive channel (the
\* head of its queue is taken and run() goes on), the bytes of the packet
\* are appended unchanged to its output buffer; its
\* accumulation buffer is unchanged, no handler is invoked and the handler
\* lock is not taken, and nothing is put on its sibling-send channel.
ShortCircuitReceipt ==
    [][\A d \in Direction :
         (chan[d] # <<>> /\ chan'[d] = Tail(chan[d]) /\ ~Ended(d)') =>
           /\ write_buf'[d] = write_buf[d] \o Head(chan[d]).bytes
           /\ packet_buf'[d] = packet_buf[d]
           /\ frames'[d] = frames[d]
           /\ calls' = calls
           /\ lock' = lock
           /\ sent'[d] = sent[d]
           /\ chan'[Sibling(d)] = chan[Sibling(d)]
           /\ result'[d] = result[d]]_vars

\* a Pipe holding a partial frame in its accumulation buffer has received
\* the 'N' of the sibling: it is its output buffer and its only event
ShortCircuitReceiptWitness ==
    \E d \in Direction :
        /\ pc[d] = "flush"
        /\ packet_buf[d] # <<>>
        /\ events[d] = <<[from |-> "channel", bytes |-> <<78>>]>>
        /\ write_buf[d] = <<78>>
        /\ calls[d] = <<>>
        /\ sent[d] = <<>>

\* C17: each get_packet call that returns a frame removes at least one byte
\* from the accumulation buffer, so the while-let loop that extracts the
\* frames of a chunk ends after finitely many turns, also for a PostgreSQL
\* frame whose declared length is below 4.
ExtractionProgress ==
    LET c == last_call["Forward"]
    IN  (c.called /\ c.res.some) =>
          /\ Len(c.res.packet_buf) < Len(c.arg)
          /\ Len(c.res.packet.bytes) >= 1

\* Pipe d is suspended in the send of an SSL reply: its Sender is parked
\* until the sibling receives
SendSuspended(d) ==
    pc[d] = "parked" /\ parked[d] /\ ~Ended(Sibling(d))

\* C18: no reachable state has both Pipes suspended at once in the send of
\* an SSL reply to each other, each waiting for the other to receive.
NoCircularWait ==
    ~(\A d \in Direction : SendSuspended(d))

\* a sink.write of the flush loop of Pipe d returns Ok in this step
WriteReturned(d) ==
    /\ pc[d] = "flush"
    /\ pc'[d] = "flush"
    /\ (zero_write'[d] # zero_write[d] \/ sink'[d] # sink[d])

\* C19: whatever the sink accepts of each write, from nothing to all that is
\* left, the flush loop ends after finitely many writes or run() fails: the
\* Pipe never goes round the loop without progress, that is every write that
\* returns leaves the output buffer shorter than it found it.
FlushProgress ==
    [][\A d \in Direction :
         WriteReturned(d) => Len(write_buf'[d]) < Len(write_buf[d])]_vars

(***************************************************************************)
(* The session under fair scheduling: both tasks are polled when they can  *)
(* go on, a ready channel branch of the race is taken, the handler returns *)
(* and the sink accepts at least one byte of a write.  The source is the   *)
(* environment's: no read is ever forced.                                  *)
(***************************************************************************)
Fairness ==
    \A d \in Direction :
        /\ WF_vars(GetPacket(d))
        /\ WF_vars(Send(d))
        /\ WF_vars(SendResume(d))
        /\ WF_vars(Lock(d))
        /\ WF_vars(\E t \in HandlerReturns(handler_op(d), packet[d]) :
                      HandlerReturn(d, t))
        /\ WF_vars(Recv(d))
        /\ WF_vars(\E n \in 1..Len(write_buf[d]) : SinkWrite(d, n))
        /\ WF_vars(FlushDone(d))

LiveSpec == Init /\ [][Next]_vars /\ Fairness

\* the sink of Pipe s has taken the bytes of the k-th packet that s received
\* on its channel
Delivered(s, k) ==
    \E i \in 1..Len(events[s]) :
        /\ Cardinality({j \in 1..i : events[s][j].from = "channel"}) >= k
        /\ Len(sink[s]) >=
             Len(Flatten([j \in 1..i |-> events[s][j].bytes]))

\* C20: as long as both Pipes keep running, every SSL-negotiation probe a
\* Pipe extracts is eventually followed by the 'N' written to the sink of
\* the sibling: the k-th probe of Pipe d leads to the k-th channel packet of
\* the sibling being in the sibling's sink, or to the end of a Pipe.
ShortCircuitDelivery ==
    \A d \in Direction : \A k \in 1..(2 * MaxReads) :
        (Len(SSLFrames(d)) >= k) ~>
            (\/ Ended(d)
             \/ Ended(Sibling(d))
             \/ Delivered(Sibling(d), k))

====
